---- MODULE Spec2Model ----
(***************************************************************************)
(* Model of anonymize_it/utils.py: the shared-cursor generator batch, the  *)
(* configuration parser parse_config, flatten_nest, the match predicates   *)
(* contains_secret / contains_keywords and hash_value.                     *)
(*                                                                         *)
(* batch is a state machine (one source cursor shared by every group it    *)
(* has yielded); the other functions are pure and are exercised by a call  *)
(* step: args holds the arguments, ret the outcome, pc the position.       *)
(*                                                                         *)
(* Python text is a string: + is \o, len is Len and a slice is SubSeq, so   *)
(* that concatenation, substring search and splitting are computed.        *)
(***************************************************************************)
EXTENDS Integers, Sequences, FiniteSets, TLC

VARIABLES
    iterable,    \* batch: the source sequence handed to batch()
    size,        \* batch: the size argument
    sourceiter,  \* batch: number of elements already taken from iter(iterable)
    gen,         \* batch: the generator: "active", "returned" or "raised"
    groups,      \* batch: the chain objects yielded so far, in order
    delivered,   \* history: the elements handed to consumers, in order
    orderly,     \* history: every group was fully consumed before the next request
    args,        \* pure functions: the arguments of the call
    ret,         \* pure functions: the outcome of the call
    pc           \* pure functions: "call" before the call, "return" after it
                 \* ("batch" while the generator is exercised)

vars == <<iterable, size, sourceiter, gen, groups, delivered, orderly, args, ret, pc>>

(***************************************************************************)
(* Bounds of the model.                                                    *)
(***************************************************************************)
MaxLen == 5      \* longest source sequence given to batch
MaxSize == 3     \* largest size given to batch

\* The sources given to batch: for every length n up to MaxLen the sequence
\* 1, 2, ..., n, so that an element names its own position in the source.
Sources == {[i \in 1..n |-> i] : n \in 0..MaxLen}

(***************************************************************************)
(* batch(iterable, size)                                                   *)
(***************************************************************************)

\* What the generator does with the StopIteration of next(batchiter): the
\* except clause catches it and the generator returns.  (Variant: without
\* the except clause the exception leaves the generator.)
OnStopIterationUncaught == "raised"
OnStopIteration == "returned"

\* islice(sourceiter, size) stops on its own once it has produced size
\* elements, the first element of the group included.  (Variant: the first
\* element is not counted.)
IsliceHasRoomOffByOne(g) == g.taken < size + 1
IsliceHasRoom(g) == g.taken < size

\* chain([next(batchiter)], batchiter): the first element is taken from the
\* source when the group is built and held until the consumer pulls it.
NewGroup(p) == [first |-> p, firstOut |-> FALSE, taken |-> 1, exhausted |-> FALSE]

\* next(sourceiter) has an element to give
SourceHasNext == sourceiter < Len(iterable)

\* the position the shared cursor hands out next  (Variant: a cursor that
\* hands out its last position again.)
CursorNextStale == IF sourceiter = 0 THEN 1 ELSE sourceiter
CursorNext == sourceiter + 1

\* the group can still hand an element to its consumer
CanDeliver(g) ==
    /\ ~g.exhausted
    /\ \/ ~g.firstOut
       \/ IsliceHasRoom(g) /\ SourceHasNext

\* every group yielded so far has handed out all it will ever hand out
AllConsumed == \A i \in DOMAIN groups : ~CanDeliver(groups[i])

Init ==
    /\ iterable \in Sources
    /\ size \in 1..MaxSize
    /\ sourceiter = 0
    /\ gen = "active"
    /\ groups = <<>>
    /\ delivered = <<>>
    /\ orderly = TRUE
    /\ args = <<>>
    /\ ret = <<>>
    /\ pc = "batch"

\* next(batches): the generator builds a new islice, takes its first element
\* and yields the chain.
NextGroup ==
    /\ gen = "active"
    /\ SourceHasNext
    /\ groups' = Append(groups, NewGroup(CursorNext))
    /\ sourceiter' = sourceiter + 1
    /\ orderly' = (orderly /\ AllConsumed)
    /\ UNCHANGED <<iterable, size, gen, delivered, args, ret, pc>>

\* next(batches) on an exhausted source: next(batchiter) raises StopIteration.
GeneratorEnd ==
    /\ gen = "active"
    /\ ~SourceHasNext
    /\ gen' = OnStopIteration
    /\ orderly' = (orderly /\ AllConsumed)
    /\ UNCHANGED <<iterable, size, sourceiter, groups, delivered, args, ret, pc>>

\* next(group) where the held first element has not been handed out yet
PullFirst(i) ==
    /\ ~groups[i].exhausted
    /\ ~groups[i].firstOut
    /\ groups' = [groups EXCEPT ![i].firstOut = TRUE]
    /\ delivered' = Append(delivered, [group |-> i, index |-> groups[i].first])
    /\ UNCHANGED <<iterable, size, sourceiter, gen, orderly, args, ret, pc>>

\* next(group) served by the group's islice from the shared cursor
PullRest(i) ==
    /\ ~groups[i].exhausted
    /\ groups[i].firstOut
    /\ IsliceHasRoom(groups[i])
    /\ SourceHasNext
    /\ sourceiter' = sourceiter + 1
    /\ groups' = [groups EXCEPT ![i].taken = @ + 1]
    /\ delivered' = Append(delivered, [group |-> i, index |-> CursorNext])
    /\ UNCHANGED <<iterable, size, gen, orderly, args, ret, pc>>

\* next(group) raising StopIteration: the islice is full or the source is empty
PullStop(i) ==
    /\ ~groups[i].exhausted
    /\ groups[i].firstOut
    /\ ~(IsliceHasRoom(groups[i]) /\ SourceHasNext)
    /\ groups' = [groups EXCEPT ![i].exhausted = TRUE]
    /\ UNCHANGED <<iterable, size, sourceiter, gen, delivered, orderly, args, ret, pc>>

Next ==
    \/ NextGroup
    \/ GeneratorEnd
    \/ \E i \in DOMAIN groups : PullFirst(i)
    \/ \E i \in DOMAIN groups : PullRest(i)
    \/ \E i \in DOMAIN groups : PullStop(i)

Spec == Init /\ [][Next]_vars

(***************************************************************************)
(* Claims about batch                                                      *)
(***************************************************************************)

\* the source positions group i has handed out, in the order it handed them out
GroupIndexes(i) ==
    LET own == SelectSeq(delivered, LAMBDA d : d.group = i)
    IN  [k \in DOMAIN own |-> own[k].index]

\* the elements group i has handed out
GroupItems(i) == [k \in DOMAIN GroupIndexes(i) |-> iterable[GroupIndexes(i)[k]]]

\* the groups 1..n concatenated in the order they were yielded
RECURSIVE ConcatGroups(_)
ConcatGroups(n) == IF n = 0 THEN <<>> ELSE ConcatGroups(n - 1) \o GroupItems(n)

\* the generator has returned and nothing is left in any group
Finished == gen = "returned" /\ AllConsumed

\* C1: when every group is fully consumed before the next one is requested,
\* the groups concatenated in yield order are the source sequence (at every
\* moment the part of it consumed so far), every group but the last has
\* exactly size elements, and the last has between 1 and size elements.
BatchPartition ==
    orderly =>
        /\ ConcatGroups(Len(groups)) = SubSeq(iterable, 1, Len(delivered))
        /\ \A i \in DOMAIN groups : Len(GroupIndexes(i)) <= size
        /\ \A i \in DOMAIN groups : i < Len(groups) => Len(GroupIndexes(i)) = size
        /\ Finished =>
              /\ ConcatGroups(Len(groups)) = iterable
              /\ groups # <<>> => Len(GroupIndexes(Len(groups))) \in 1..size

\* the example of the specification: 1..5 with size 2 gives [1,2], [3,4], [5]
BatchPartitionWitness ==
    /\ orderly
    /\ Finished
    /\ iterable = <<1, 2, 3, 4, 5>>
    /\ size = 2
    /\ Len(groups) = 3
    /\ GroupItems(1) = <<1, 2>>
    /\ GroupItems(2) = <<3, 4>>
    /\ GroupItems(3) = <<5>>

\* C7: batch never raises; it returns only once the source is exhausted; a
\* group that has nothing left to hand out has handed out at least one
\* element; and with groups consumed one after another the number of groups
\* is Len(iterable) / size rounded up: no trailing empty group when the
\* length is a multiple of size, no group at all for an empty source.
BatchEndsCleanly ==
    /\ gen # "raised"
    /\ gen = "returned" => ~SourceHasNext
    /\ \A i \in DOMAIN groups : ~CanDeliver(groups[i]) => Len(GroupIndexes(i)) >= 1
    /\ (orderly /\ ~SourceHasNext /\ AllConsumed) =>
          /\ (Len(groups) - 1) * size < Len(iterable) \/ groups = <<>>
          /\ Len(iterable) <= Len(groups) * size
    /\ (~SourceHasNext /\ gen = "active") => ENABLED GeneratorEnd

\* the source ran out in the middle of a group and the generator returned
BatchEndsCleanlyWitness ==
    /\ orderly
    /\ Finished
    /\ Len(iterable) > size
    /\ Len(iterable) % size # 0

\* C10 as stated: in every interleaving of group requests and pulls each
\* source element is delivered at most once, elements are delivered in
\* source order, and no group delivers more than size elements.
SharedCursorInSourceOrder ==
    /\ \A j, k \in DOMAIN delivered : j < k => delivered[j].index < delivered[k].index
    /\ \A i \in DOMAIN groups : Len(GroupIndexes(i)) <= size

\* C10 amended: in every interleaving each source element is delivered at
\* most once, no group delivers more than size elements, and the elements
\* delivered by any one group are in source order.
SharedCursorAtMostOnce ==
    /\ \A j, k \in DOMAIN delivered : j < k => delivered[j].index # delivered[k].index
    /\ \A i \in DOMAIN groups : Len(GroupIndexes(i)) <= size
    /\ \A i \in DOMAIN groups : \A j, k \in DOMAIN GroupIndexes(i) :
           j < k => GroupIndexes(i)[j] < GroupIndexes(i)[k]

\* an older group was pulled after a newer group had been requested, and an
\* element was delivered after one that follows it in the source
SharedCursorWitness ==
    /\ ~orderly
    /\ \E j, k \in DOMAIN delivered :
           /\ j < k
           /\ delivered[j].group > delivered[k].group
           /\ delivered[j].index > delivered[k].index

(***************************************************************************)
(* Python values.  A value is a tuple whose first element is its type:     *)
(* None, a str, a bool, an int, a list or a dict.  A dict is the sequence  *)
(* of its <<key, value>> items in insertion order, with no key twice.      *)
(***************************************************************************)
None == <<"none">>
PyStr(s) == <<"str", s>>
PyBool(b) == <<"bool", b>>
PyInt(n) == <<"int", n>>
PyList(l) == <<"list", l>>
PyDict(f) == <<"dict", f>>

TypeOf(v) == v[1]

\* the keys of a dict
Keys(d) == {d[i][1] : i \in DOMAIN d}

\* Python truth value: None, "", [], {} and False are falsy
Truthy(v) ==
    CASE TypeOf(v) = "none" -> FALSE
      [] TypeOf(v) = "str"  -> Len(v[2]) > 0
      [] TypeOf(v) = "bool" -> v[2]
      [] TypeOf(v) = "int"  -> v[2] # 0
      [] TypeOf(v) = "list" -> Len(v[2]) > 0
      [] TypeOf(v) = "dict" -> Len(v[2]) > 0

\* dict.get(key): None when the key is absent
Get(d, key) ==
    IF key \in Keys(d) THEN d[CHOOSE i \in DOMAIN d : d[i][1] = key][2] ELSE None

\* The pure functions are called with the batch generator left untouched.
NoBatch ==
    /\ iterable = <<>>
    /\ size = 1
    /\ sourceiter = 0
    /\ gen = "active"
    /\ groups = <<>>
    /\ delivered = <<>>
    /\ orderly = TRUE

(***************************************************************************)
(* parse_config(config)                                                    *)
(***************************************************************************)
SourceNotDefined == "source error: source not defined. Please check config."
DestNotDefined == "destination error: dest not defined. Please check config."
SourceTypeNotDefined == "source error: source type not defined. Please check config."
DestTypeNotDefined == "destination error: dest type not defined. Please check config."
NoMaskedFields == "no masked fields included in config. No data will be anonymized"

\* raise ConfigParserError(message), after the warnings recorded so far
Raise(message, warned) == [raised |-> message, warnings |-> warned, config |-> None]

\* if not masked_fields: warnings.warn(...)  (Variant: a test for None only,
\* which lets an empty include list pass unwarned.)
MaskedFieldsWarningOnlyIfAbsent(masked_fields) ==
    IF masked_fields = None THEN <<NoMaskedFields>> ELSE <<>>
MaskedFieldsWarning(masked_fields) ==
    IF ~Truthy(masked_fields) THEN <<NoMaskedFields>> ELSE <<>>

parse_config(config) ==
    LET source == Get(config, "source")
        dest == Get(config, "dest")
        anonymization_type == Get(config, "anonymization")
        masked_fields == Get(config, "include")
        suppressed_fields == Get(config, "exclude")
        include_rest == Get(config, "include_rest")
        sensitive == Get(config, "sensitive")
    IN  IF ~Truthy(source) THEN Raise(SourceNotDefined, <<>>)
        ELSE IF ~Truthy(dest) THEN Raise(DestNotDefined, <<>>)
        ELSE LET warned == MaskedFieldsWarning(masked_fields)
                 reader_type == Get(source[2], "type")
                 writer_type == Get(dest[2], "type")
             IN  IF ~Truthy(reader_type) THEN Raise(SourceTypeNotDefined, warned)
                 ELSE IF ~Truthy(writer_type) THEN Raise(DestTypeNotDefined, warned)
                 ELSE [raised |-> "",
                       warnings |-> warned,
                       config |-> [source |-> source,
                                   dest |-> dest,
                                   anonymization_type |-> anonymization_type,
                                   masked_fields |-> masked_fields,
                                   suppressed_fields |-> suppressed_fields,
                                   include_rest |-> include_rest,
                                   sensitive |-> sensitive]]

\* The raw configurations: every key is absent or has one of a few values; a
\* source / dest descriptor is empty, has no type, or has a type.
Absent == <<"absent">>

ConfigChoices ==
    [source : {Absent, PyDict(<<>>), PyDict(<<<<"host", PyStr("localhost")>>>>),
               PyDict(<<<<"type", PyStr("elasticsearch")>>>>)},
     dest : {Absent, PyDict(<<>>), PyDict(<<<<"directory", PyStr("out")>>>>),
             PyDict(<<<<"type", PyStr("filesystem")>>>>)},
     anonymization : {Absent, PyStr("faker")},
     include : {Absent, PyList(<<>>), PyList(<<"user.email">>)},
     exclude : {Absent, PyList(<<"user.name">>)},
     include_rest : {Absent, PyBool(TRUE), PyBool(FALSE)},
     sensitive : {Absent, PyList(<<"password">>)}]

ConfigKeys ==
    <<"source", "dest", "anonymization", "include", "exclude", "include_rest", "sensitive">>

RawConfig(c) ==
    LET present == SelectSeq(ConfigKeys, LAMBDA key : c[key] # Absent)
    IN  [i \in DOMAIN present |-> <<present[i], c[present[i]]>>]

InitConfig ==
    /\ NoBatch
    /\ args \in {RawConfig(c) : c \in ConfigChoices}
    /\ ret = <<>>
    /\ pc = "call"

ParseConfig ==
    /\ pc = "call"
    /\ ret' = parse_config(args)
    /\ pc' = "return"
    /\ UNCHANGED <<iterable, size, sourceiter, gen, groups, delivered, orderly, args>>

NextConfig == ParseConfig

SpecConfig == InitConfig /\ [][NextConfig]_vars

\* the descriptor under key is present and has a type
HasType(config, key) == key \in Keys(config) /\ "type" \in Keys(Get(config, key)[2])

\* the descriptor under key is present and has no type
LacksType(config, key) == key \in Keys(config) /\ "type" \notin Keys(Get(config, key)[2])

\* C2: parse_config raises in each of the four cases, and the message it
\* raises names a case that occurred: a distinct message for each of source
\* missing, dest missing, source.type missing and dest.type missing.
ConfigErrorNamesTheCase ==
    pc = "return" =>
        /\ ("source" \notin Keys(args) \/ "dest" \notin Keys(args)
              \/ LacksType(args, "source") \/ LacksType(args, "dest"))
             => ret.raised \in {SourceNotDefined, DestNotDefined,
                                SourceTypeNotDefined, DestTypeNotDefined}
        /\ ret.raised = SourceNotDefined => "source" \notin Keys(args)
        /\ ret.raised = DestNotDefined => "dest" \notin Keys(args)
        /\ ret.raised = SourceTypeNotDefined => LacksType(args, "source")
        /\ ret.raised = DestTypeNotDefined => LacksType(args, "dest")
        /\ Cardinality({SourceNotDefined, DestNotDefined,
                        SourceTypeNotDefined, DestTypeNotDefined}) = 4

\* the value the raw configuration gives a key, None when it gives none
RawValue(key) ==
    IF \E i \in DOMAIN args : args[i][1] = key
    THEN LET i == CHOOSE j \in DOMAIN args : args[j][1] = key IN args[i][2]
    ELSE None

Contains(text, word) ==
    \E i \in 0..(Len(text) - Len(word)) : SubSeq(text, i + 1, i + Len(word)) = word

\* text.split(sep) for a non-empty sep
RECURSIVE Split(_, _)
Split(text, sep) ==
    IF ~Contains(text, sep) THEN <<text>>
    ELSE LET at == CHOOSE i \in 1..Len(text) :
                     /\ SubSeq(text, i, i + Len(sep) - 1) = sep
                     /\ \A j \in 1..(i - 1) : SubSeq(text, j, j + Len(sep) - 1) # sep
         IN  <<SubSeq(text, 1, at - 1)>> \o Split(SubSeq(text, at + Len(sep), Len(text)), sep)

(***************************************************************************)
(* flatten_nest(d, parent_key='', sep='.')                                 *)
(***************************************************************************)
MaxDepth == 2    \* deepest nesting of the records given to flatten_nest
MaxItems == 2    \* most keys in one mapping of those records

\* dict(items): a later item replaces the value of an earlier one with the
\* same key, which keeps its place
RECURSIVE DictOf(_)
DictOf(items) ==
    IF items = <<>> THEN <<>>
    ELSE LET before == DictOf(SubSeq(items, 1, Len(items) - 1))
             item == items[Len(items)]
         IN  IF item[1] \in Keys(before)
             THEN [i \in DOMAIN before |-> IF before[i][1] = item[1] THEN item ELSE before[i]]
             ELSE Append(before, item)

\* new_key = parent_key + sep + k if parent_key else k
NewKey(parent_key, sep, k) == IF Len(parent_key) > 0 THEN parent_key \o sep \o k ELSE k

RECURSIVE flatten_nest(_, _, _)
RECURSIVE FlattenLoop(_, _, _, _)

\* the list items after the for loop has gone through the first n items of d
FlattenLoop(d, parent_key, sep, n) ==
    IF n = 0 THEN <<>>
    ELSE LET items == FlattenLoop(d, parent_key, sep, n - 1)
             k == d[n][1]
             v == d[n][2]
             new_key == NewKey(parent_key, sep, k)
         IN  IF TypeOf(v) = "dict"
             THEN items \o flatten_nest(v[2], new_key, sep)
             ELSE Append(items, <<new_key, v>>)

flatten_nest(d, parent_key, sep) == DictOf(FlattenLoop(d, parent_key, sep, Len(d)))

\* The records: mappings nested up to MaxDepth deep with up to MaxItems keys
\* each, whose leaves are a scalar or a list of scalars.  The keys include
\* the empty key and a key that contains a dot.
RecordKeys == {"", "a", "b", "a.b"}
Leaves == {PyInt(1), PyList(<<PyInt(1), PyInt(2)>>)}
Separators == {".", "/"}

RECURSIVE ItemSeqs(_, _, _)
ItemSeqs(keys, values, n) ==
    IF n = 0 THEN {<<>>}
    ELSE LET shorter == ItemSeqs(keys, values, n - 1)
         IN  shorter \cup
             {Append(d, <<k, v>>) : d \in {x \in shorter : Len(x) = n - 1},
                                    k \in keys, v \in values}

UniqueKeys(d) == Cardinality(Keys(d)) = Len(d)

RECURSIVE Records(_)
Records(depth) ==
    LET values == IF depth = 1 THEN Leaves
                  ELSE Leaves \cup {PyDict(m) : m \in Records(depth - 1)}
    IN  {d \in ItemSeqs(RecordKeys, values, MaxItems) : UniqueKeys(d)}

InitFlatten ==
    /\ NoBatch
    /\ args \in [d : Records(MaxDepth), sep : Separators]
    /\ ret = <<>>
    /\ pc = "call"

Flatten ==
    /\ pc = "call"
    /\ ret' = flatten_nest(args.d, "", args.sep)
    /\ pc' = "return"
    /\ UNCHANGED <<iterable, size, sourceiter, gen, groups, delivered, orderly, args>>

NextFlatten == Flatten

SpecFlatten == InitFlatten /\ [][NextFlatten]_vars

\* a mapping as the set of its items, nested mappings included: two dicts
\* are equal in Python exactly when these are equal
RECURSIVE AsSet(_)
AsSet(d) ==
    {<<d[i][1], IF TypeOf(d[i][2]) = "dict" THEN <<"dict", AsSet(d[i][2][2])>> ELSE d[i][2]>>
        : i \in DOMAIN d}

\* the nested structure rebuilt from entries <<path components, leaf>>
RECURSIVE Rebuild(_)
Rebuild(entries) ==
    LET here == {e \in entries : Len(e[1]) = 1}
        below == {e \in entries : Len(e[1]) > 1}
    IN  {<<e[1][1], e[2]>> : e \in here}
        \cup {<<h, <<"dict", Rebuild({<<Tail(e[1]), e[2]>> : e \in {x \in below : x[1][1] = h}})>>>>
                : h \in {e[1][1] : e \in below}}

\* the nested structure rebuilt from a flat mapping by splitting each path on sep
Unflatten(flat, sep) == Rebuild({<<Split(flat[i][1], sep), flat[i][2]>> : i \in DOMAIN flat})

\* every key of the record, at every level
RECURSIVE AllKeys(_)
AllKeys(d) ==
    Keys(d) \cup UNION {IF TypeOf(d[i][2]) = "dict" THEN AllKeys(d[i][2][2]) ELSE {} : i \in DOMAIN d}

\* the number of leaves of the record
RECURSIVE NumLeaves(_)
NumLeaves(d) ==
    IF d = <<>> THEN 0
    ELSE NumLeaves(Tail(d))
         + (IF TypeOf(d[1][2]) = "dict" THEN NumLeaves(d[1][2][2]) ELSE 1)

\* C3: for every record and every separator that appears in no key of it,
\* rebuilding the nested structure from flatten_nest(R, sep) by splitting
\* each path on the separator gives back exactly R.
FlattenRoundTrip ==
    (pc = "return" /\ \A k \in AllKeys(args.d) : ~Contains(k, args.sep))
        => Unflatten(ret, args.sep) = AsSet(args.d)

\* C8: two different leaves never receive the same path: the flat mapping
\* has as many entries as the record has leaves.
FlattenNoCollision ==
    pc = "return" => Len(ret) = NumLeaves(args.d)

(***************************************************************************)
(* contains_secret(regex, field_value) and                                 *)
(* contains_keywords(field_value, keywords)                                *)
(*                                                                         *)
(* A call ends in "True", "False" or "None" (the value returned) or in     *)
(* "TypeError" (the exception raised).  The compiled regex is a literal    *)
(* pattern: regex.search(text) finds it anywhere in the text.              *)
(***************************************************************************)
MaxList == 2       \* longest list given as a field value
MaxKeywords == 2   \* longest keyword list

\* regex.search(f): a match object or None; TypeError unless f is a str
Search(regex, f) ==
    IF TypeOf(f) # "str" THEN "TypeError"
    ELSE IF Contains(f[2], regex) THEN "True" ELSE "None"

\* word in f: TypeError unless f is a str (f is a scalar here)
In(word, f) ==
    IF TypeOf(f) # "str" THEN "TypeError"
    ELSE IF Contains(f[2], word) THEN "True" ELSE "False"

\* for f in field_value: if regex.search(f): return True   (from element i on)
RECURSIVE SecretLoop(_, _, _)
SecretLoop(regex, fs, i) ==
    IF i > Len(fs) THEN "None"
    ELSE IF Search(regex, fs[i]) = "None" THEN SecretLoop(regex, fs, i + 1)
    ELSE Search(regex, fs[i])

contains_secret(regex, field_value) ==
    IF TypeOf(field_value) = "list" THEN SecretLoop(regex, field_value[2], 1)
    ELSE Search(regex, field_value)

\* any(word in f for f in fs)   (from element i on)
RECURSIVE AnyElement(_, _, _)
AnyElement(word, fs, i) ==
    IF i > Len(fs) THEN "False"
    ELSE IF In(word, fs[i]) = "False" THEN AnyElement(word, fs, i + 1)
    ELSE In(word, fs[i])

\* for word in keywords: if any(word in f for f in field_value): return True
RECURSIVE KeywordLoop(_, _, _)
KeywordLoop(words, fs, w) ==
    IF w > Len(words) THEN "None"
    ELSE IF AnyElement(words[w], fs, 1) = "False" THEN KeywordLoop(words, fs, w + 1)
    ELSE AnyElement(words[w], fs, 1)

\* any(word in field_value for word in keywords)   (from word w on)
RECURSIVE AnyWord(_, _, _)
AnyWord(words, field_value, w) ==
    IF w > Len(words) THEN "None"
    ELSE IF In(words[w], field_value) = "False" THEN AnyWord(words, field_value, w + 1)
    ELSE In(words[w], field_value)

contains_keywords(field_value, keywords) ==
    IF ~Truthy(keywords) THEN "False"
    ELSE IF TypeOf(field_value) = "list" THEN KeywordLoop(keywords[2], field_value[2], 1)
    ELSE AnyWord(keywords[2], field_value, 1)

\* The field values: a string, a number, a bool, None, or a list of these.
RECURSIVE SeqsUpTo(_, _)
SeqsUpTo(S, n) ==
    IF n = 0 THEN {<<>>}
    ELSE LET shorter == SeqsUpTo(S, n - 1)
         IN  shorter \cup {Append(q, e) : q \in {x \in shorter : Len(x) = n - 1}, e \in S}

Scalars == {PyStr(""), PyStr("a"), PyStr("b"), PyStr("ab"), PyInt(1), PyBool(TRUE), None}
FieldValues == Scalars \cup {PyList(l) : l \in SeqsUpTo(Scalars, MaxList)}
Patterns == {"a", "ab"}
KeywordLists == {None} \cup {PyList(l) : l \in SeqsUpTo({"a", "b"}, MaxKeywords)}

InitMatch ==
    /\ NoBatch
    /\ args \in [regex : Patterns, field_value : FieldValues, keywords : KeywordLists]
    /\ ret = [secret |-> "pending", keywords |-> "pending"]
    /\ pc = "call"

ContainsSecret ==
    /\ ret.secret = "pending"
    /\ ret' = [ret EXCEPT !.secret = contains_secret(args.regex, args.field_value)]
    /\ UNCHANGED <<iterable, size, sourceiter, gen, groups, delivered, orderly, args, pc>>

ContainsKeywords ==
    /\ ret.keywords = "pending"
    /\ ret' = [ret EXCEPT !.keywords = contains_keywords(args.field_value, args.keywords)]
    /\ UNCHANGED <<iterable, size, sourceiter, gen, groups, delivered, orderly, args, pc>>

NextMatch == ContainsSecret \/ ContainsKeywords

SpecMatch == InitMatch /\ [][NextMatch]_vars

\* the elements a field value is made of: its elements if it is a list
Elements(field_value) ==
    IF TypeOf(field_value) = "list"
    THEN {field_value[2][i] : i \in DOMAIN field_value[2]}
    ELSE {field_value}

\* the regex matches / the word is a substring of the element
Matches(regex, f) == TypeOf(f) = "str" /\ Contains(f[2], regex)

\* C4: for a list value and for a scalar string value, contains_secret is
\* truthy exactly when the regex matches at least one element (the value
\* itself for a scalar) and contains_keywords is truthy exactly when at
\* least one keyword is a substring of at least one element; with an empty
\* or absent keyword list contains_keywords is never truthy.
MatchDecidesWholeField ==
    LET value == args.field_value
        decided == TypeOf(value) \in {"list", "str"}
    IN  /\ (ret.secret # "pending" /\ decided) =>
              (ret.secret = "True" <=> \E f \in Elements(value) : Matches(args.regex, f))
        /\ (ret.keywords # "pending" /\ decided /\ Truthy(args.keywords)) =>
              (ret.keywords = "True" <=>
                  \E w \in DOMAIN args.keywords[2] : \E f \in Elements(value) :
                      Matches(args.keywords[2][w], f))
        /\ (ret.keywords # "pending" /\ ~Truthy(args.keywords)) => ret.keywords # "True"

\* C9: for every field value that is a string, number, bool, None or a list
\* of these, contains_secret, and contains_keywords with a non-empty keyword
\* list, return a verdict instead of raising.
MatchNeverRaises ==
    /\ ret.secret # "TypeError"
    /\ Truthy(args.keywords) => ret.keywords # "TypeError"

(***************************************************************************)
(* hash_value(hashkey, field_value)                                        *)
(***************************************************************************)

\* str(n) for an integer
RECURSIVE IntStr(_)
IntStr(n) ==
    IF n < 0 THEN "-" \o IntStr(-n)
    ELSE IF n < 10 THEN SubSeq("0123456789", n + 1, n + 1)
    ELSE IntStr(n \div 10) \o IntStr(n % 10)

\* how an f-string formats a scalar: str(value)
Format(v) ==
    CASE TypeOf(v) = "str"  -> v[2]
      [] TypeOf(v) = "int"  -> IntStr(v[2])
      [] TypeOf(v) = "bool" -> IF v[2] THEN "True" ELSE "False"
      [] TypeOf(v) = "none" -> "None"

\* hashlib.sha256(text.encode()).hexdigest(), taken to be collision-free:
\* the digest stands for the text it was computed from
Sha256(text) == <<"sha256", text>>

hash_value(hashkey, field_value) == Sha256(Format(hashkey) \o ":" \o Format(field_value))

HashKeys == {PyStr("key"), PyStr("")}
HashValues ==
    {PyStr(""), PyStr("a"), PyStr("1"), PyStr("True"), PyStr("None"),
     PyInt(0), PyInt(1), PyInt(12), PyBool(TRUE), PyBool(FALSE), None}

InitHash ==
    /\ NoBatch
    /\ args \in {a \in [hashkey : HashKeys, value1 : HashValues, value2 : HashValues] :
                    a.value1 # a.value2}
    /\ ret = <<>>
    /\ pc = "call"

HashValue ==
    /\ pc = "call"
    /\ ret' = <<hash_value(args.hashkey, args.value1), hash_value(args.hashkey, args.value2)>>
    /\ pc' = "return"
    /\ UNCHANGED <<iterable, size, sourceiter, gen, groups, delivered, orderly, args>>

NextHash == HashValue

SpecHash == InitHash /\ [][NextHash]_vars

\* C5: two different scalar values under the same hash key never get the
\* same token (the digest being collision-free).
HashSeparatesValues ==
    (pc = "return" /\ args.value1 # args.value2) => ret[1] # ret[2]

====
